---- MODULE Spec2Model ----
(***************************************************************************)
(* Automation-Hub: two independent one-shot scripts.                       *)
(*                                                                         *)
(*   Pipeline A  "Export followers without following.py"                   *)
(*   Pipeline B  "Email_Jobs_Sender.py"                                    *)
(*                                                                         *)
(* Each script is a straight-line program; its position is kept in a       *)
(* program counter and every statement group of the script is one action.  *)
(* The files the scripts read and write are part of the state.             *)
(*                                                                         *)
(* Text is modelled as a sequence of characters so that str.strip() is     *)
(* computed, not assumed.  A spreadsheet cell is either NaN (empty cell)   *)
(* or a text; only text cells are modelled in the Email column.            *)
(***************************************************************************)
EXTENDS Integers, Sequences, FiniteSets, TLC

VARIABLES
    \* ---------------- Pipeline B: Email_Jobs_Sender.py ----------------
    pc,             \* position in the script
    fileReadable,   \* "Email List.xlsx" exists and has an "Email" column
    sheet,          \* the "Email" column stored in "Email List.xlsx"
    df,             \* the data frame read at line 54
    emails,         \* the cleaned recipient list of line 55
    tokenFile,      \* content of token.pickle (NoCreds when the file is absent)
    creds,          \* the credential object held by the script
    idx,            \* position of the for-loop of line 106 (1-based)
    failed_emails,  \* the list of line 104
    attempts,       \* log of send() calls: <<[to, ok], ...>>
    refreshCalls,   \* number of creds.refresh() calls
    flowCalls,      \* number of interactive authorization flows started
    refreshFailed,  \* creds.refresh() raised
    writes,         \* number of completed overwrites of "Email List.xlsx"
    sheet0,         \* the spreadsheet as it was when the run started
    tokenFile0,     \* token.pickle as it was when the run started
    \* ------- Pipeline A: Export followers without following.py -------
    pcA,            \* position in the script
    followingExists,    \* followers_and_following/following.json exists
    followersExists,    \* followers_and_following/followers.json exists
    followingJson,  \* decoded content of following.json
    followersJson,  \* decoded content of followers.json
    following_data, \* line 69
    followers_data, \* line 70
    following,      \* line 74
    followers,      \* line 85
    not_following_back, \* line 92
    output,         \* not_following_back_detailed.xlsx
    output0,        \* the output file as it was when the run started
    errorA          \* the uncaught exception that ended the run, if any

varsB == <<pc, fileReadable, sheet, df, emails, tokenFile, creds, idx,
           failed_emails, attempts, refreshCalls, flowCalls, refreshFailed,
           writes, sheet0, tokenFile0>>

varsA == <<pcA, followingExists, followersExists, followingJson, followersJson,
           following_data, followers_data, following, followers,
           not_following_back, output, output0, errorA>>

vars == <<varsB, varsA>>

----------------------------------------------------------------------------
(* Bounds of the model *)

MaxRows == 3

MaxFollowing == 3

MaxFollowers == 2

----------------------------------------------------------------------------
(* Pipeline B: data *)

Whitespace == {" "}

NaN == [na |-> TRUE, text |-> <<>>]

Str(t) == [na |-> FALSE, text |-> t]

\* The texts a cell of the Email column holds in the model: clean addresses,
\* addresses with surrounding whitespace, and a whitespace-only cell.
CellTexts == { <<"a">>, <<" ", "a">>, <<"a", " ">>, <<"b">>, <<" ">> }

Cells == {NaN} \cup { Str(t) : t \in CellTexts }

SeqsUpTo(S, n) == UNION { [1..k -> S] : k \in 0..n }

NoCreds == [present |-> FALSE, token |-> FALSE, expired |-> FALSE,
            refresh_token |-> FALSE]

CredsObjects == [present : {TRUE}, token : BOOLEAN, expired : BOOLEAN,
                 refresh_token : BOOLEAN]

\* google.oauth2 Credentials.valid: a token is held and it has not expired
Valid(c) == c.token /\ ~c.expired

\* line 69: if not creds or not creds.valid
NeedsAuthNegated(c) == ~c.present \/ Valid(c)

NeedsAuth(c) == ~c.present \/ ~Valid(c)

\* line 70: if creds and creds.expired and creds.refresh_token
CanRefresh(c) == c.present /\ c.expired /\ c.refresh_token

----------------------------------------------------------------------------
(* Pipeline B: the cleaning of line 55 and the filter of line 129 *)

RECURSIVE LStrip(_)
LStrip(s) == IF s # <<>> /\ Head(s) \in Whitespace THEN LStrip(Tail(s)) ELSE s

RECURSIVE RStrip(_)
RStrip(s) ==
    IF s # <<>> /\ s[Len(s)] \in Whitespace
    THEN RStrip(SubSeq(s, 1, Len(s) - 1))
    ELSE s

\* str.strip()
Strip(s) == RStrip(LStrip(s))

\* Series.dropna()
DropNa(col) == SelectSeq(col, LAMBDA c : ~c.na)

\* df["Email"].dropna().astype(str).str.strip().tolist()
LoadEmails(col) == [k \in DOMAIN DropNa(col) |-> Strip(DropNa(col)[k].text)]

\* Series.isin(values) for one cell: NaN matches no string
IsIn(c, values) == ~c.na /\ \E k \in DOMAIN values : values[k] = c.text

\* df[df["Email"].isin(failed_emails)]
Remaining(col, failed) == SelectSeq(col, LAMBDA c : IsIn(c, failed))

----------------------------------------------------------------------------
(* Pipeline B: the script *)

IdleA ==
    /\ pcA = "idle"
    /\ followingExists = FALSE /\ followersExists = FALSE
    /\ followingJson = <<>> /\ followersJson = <<>>
    /\ following_data = <<>> /\ followers_data = <<>>
    /\ following = <<>> /\ followers = <<>>
    /\ not_following_back = <<>>
    /\ output = <<>> /\ output0 = <<>>
    /\ errorA = <<>>

InitB ==
    /\ pc = "read"
    /\ fileReadable \in BOOLEAN
    /\ sheet \in SeqsUpTo(Cells, MaxRows)
    /\ fileReadable = FALSE => sheet = <<>>
    /\ sheet0 = sheet
    /\ df = <<>>
    /\ emails = <<>>
    /\ tokenFile \in {NoCreds} \cup CredsObjects
    /\ tokenFile0 = tokenFile
    /\ creds = NoCreds
    /\ idx = 1
    /\ failed_emails = <<>>
    /\ attempts = <<>>
    /\ refreshCalls = 0
    /\ flowCalls = 0
    /\ refreshFailed = FALSE
    /\ writes = 0
    /\ IdleA

\* lines 53-55: the spreadsheet is read and the recipient list cleaned
ReadOk ==
    /\ pc = "read"
    /\ fileReadable
    /\ df' = sheet
    /\ emails' = LoadEmails(sheet)
    /\ pc' = "token"
    /\ UNCHANGED <<fileReadable, sheet, tokenFile, creds, idx, failed_emails,
                   attempts, refreshCalls, flowCalls, refreshFailed, writes,
                   sheet0, tokenFile0, varsA>>

\* lines 56-58: the read raised; the error is printed and the script exits
ReadFail ==
    /\ pc = "read"
    /\ ~fileReadable
    /\ pc' = "aborted"
    /\ UNCHANGED <<fileReadable, sheet, df, emails, tokenFile, creds, idx,
                   failed_emails, attempts, refreshCalls, flowCalls,
                   refreshFailed, writes, sheet0, tokenFile0, varsA>>

\* lines 63-66: creds = None, replaced by the pickled object if the file exists
LoadToken ==
    /\ pc = "token"
    /\ creds' = tokenFile
    /\ pc' = "auth"
    /\ UNCHANGED <<fileReadable, sheet, df, emails, tokenFile, idx,
                   failed_emails, attempts, refreshCalls, flowCalls,
                   refreshFailed, writes, sheet0, tokenFile0, varsA>>

\* line 69 false: the stored credential is used as it is
AuthSkip ==
    /\ pc = "auth"
    /\ ~NeedsAuth(creds)
    /\ pc' = "build"
    /\ UNCHANGED <<fileReadable, sheet, df, emails, tokenFile, creds, idx,
                   failed_emails, attempts, refreshCalls, flowCalls,
                   refreshFailed, writes, sheet0, tokenFile0, varsA>>

\* lines 70-71, 77-78: the refresh succeeds and the credential is pickled
RefreshOk ==
    /\ pc = "auth"
    /\ NeedsAuth(creds)
    /\ CanRefresh(creds)
    /\ refreshCalls' = refreshCalls + 1
    /\ creds' = [creds EXCEPT !.token = TRUE, !.expired = FALSE]
    /\ tokenFile' = creds'
    /\ pc' = "build"
    /\ UNCHANGED <<fileReadable, sheet, df, emails, idx, failed_emails,
                   attempts, flowCalls, refreshFailed, writes, sheet0,
                   tokenFile0, varsA>>

\* The refresh raises and a caller that caught it would go on to the
\* interactive flow.
RefreshFailFallsBack ==
    /\ pc = "auth"
    /\ NeedsAuth(creds)
    /\ CanRefresh(creds)
    /\ refreshCalls' = refreshCalls + 1
    /\ refreshFailed' = TRUE
    /\ flowCalls' = flowCalls + 1
    /\ creds' = [present |-> TRUE, token |-> TRUE, expired |-> FALSE,
                 refresh_token |-> TRUE]
    /\ tokenFile' = creds'
    /\ pc' = "build"
    /\ UNCHANGED <<fileReadable, sheet, df, emails, idx, failed_emails,
                   attempts, writes, sheet0, tokenFile0, varsA>>

\* line 71: creds.refresh(Request()) raises; nothing catches it
RefreshFail ==
    /\ pc = "auth"
    /\ NeedsAuth(creds)
    /\ CanRefresh(creds)
    /\ refreshCalls' = refreshCalls + 1
    /\ refreshFailed' = TRUE
    /\ pc' = "aborted"
    /\ UNCHANGED <<fileReadable, sheet, df, emails, tokenFile, creds, idx,
                   failed_emails, attempts, flowCalls, writes, sheet0,
                   tokenFile0, varsA>>

\* lines 72-78: the interactive flow returns a credential, which is pickled
FlowOk ==
    /\ pc = "auth"
    /\ NeedsAuth(creds)
    /\ ~CanRefresh(creds)
    /\ flowCalls' = flowCalls + 1
    /\ creds' = [present |-> TRUE, token |-> TRUE, expired |-> FALSE,
                 refresh_token |-> TRUE]
    /\ tokenFile' = creds'
    /\ pc' = "build"
    /\ UNCHANGED <<fileReadable, sheet, df, emails, idx, failed_emails,
                   attempts, refreshCalls, refreshFailed, writes, sheet0,
                   tokenFile0, varsA>>

\* lines 74-75: credentials.json is missing or the flow raises; uncaught
FlowFail ==
    /\ pc = "auth"
    /\ NeedsAuth(creds)
    /\ ~CanRefresh(creds)
    /\ flowCalls' = flowCalls + 1
    /\ pc' = "aborted"
    /\ UNCHANGED <<fileReadable, sheet, df, emails, tokenFile, creds, idx,
                   failed_emails, attempts, refreshCalls, refreshFailed,
                   writes, sheet0, tokenFile0, varsA>>

\* lines 81, 104: the service object is built, failed_emails = []
BuildService ==
    /\ pc = "build"
    /\ failed_emails' = <<>>
    /\ idx' = 1
    /\ pc' = "send"
    /\ UNCHANGED <<fileReadable, sheet, df, emails, tokenFile, creds,
                   attempts, refreshCalls, flowCalls, refreshFailed, writes,
                   sheet0, tokenFile0, varsA>>

\* A loop body that persisted the remaining rows after each send.
SendOkPersisting ==
    /\ pc = "send"
    /\ idx <= Len(emails)
    /\ attempts' = Append(attempts, [to |-> emails[idx], ok |-> TRUE])
    /\ idx' = idx + 1
    /\ sheet' = Remaining(df, failed_emails)
    /\ writes' = writes + 1
    /\ UNCHANGED <<pc, fileReadable, df, emails, tokenFile, creds,
                   failed_emails, refreshCalls, flowCalls, refreshFailed,
                   sheet0, tokenFile0, varsA>>

\* lines 106-120: one iteration whose send().execute() returns
SendOk ==
    /\ pc = "send"
    /\ idx <= Len(emails)
    /\ attempts' = Append(attempts, [to |-> emails[idx], ok |-> TRUE])
    /\ idx' = idx + 1
    /\ UNCHANGED <<pc, fileReadable, sheet, df, emails, tokenFile, creds,
                   failed_emails, refreshCalls, flowCalls, refreshFailed,
                   writes, sheet0, tokenFile0, varsA>>

\* An iteration whose exception leaves the loop.
SendFailAborts ==
    /\ pc = "send"
    /\ idx <= Len(emails)
    /\ attempts' = Append(attempts, [to |-> emails[idx], ok |-> FALSE])
    /\ failed_emails' = Append(failed_emails, emails[idx])
    /\ idx' = idx + 1
    /\ pc' = "update"
    /\ UNCHANGED <<fileReadable, sheet, df, emails, tokenFile, creds,
                   refreshCalls, flowCalls, refreshFailed, writes, sheet0,
                   tokenFile0, varsA>>

\* lines 106-124: one iteration in which an exception is raised and caught
SendFail ==
    /\ pc = "send"
    /\ idx <= Len(emails)
    /\ attempts' = Append(attempts, [to |-> emails[idx], ok |-> FALSE])
    /\ failed_emails' = Append(failed_emails, emails[idx])
    /\ idx' = idx + 1
    /\ UNCHANGED <<pc, fileReadable, sheet, df, emails, tokenFile, creds,
                   refreshCalls, flowCalls, refreshFailed, writes, sheet0,
                   tokenFile0, varsA>>

\* line 106: the list is exhausted
LoopExit ==
    /\ pc = "send"
    /\ idx > Len(emails)
    /\ pc' = "update"
    /\ UNCHANGED <<fileReadable, sheet, df, emails, tokenFile, creds, idx,
                   failed_emails, attempts, refreshCalls, flowCalls,
                   refreshFailed, writes, sheet0, tokenFile0, varsA>>

\* lines 127-131: the rows whose cell is in failed_emails overwrite the file
UpdateOk ==
    /\ pc = "update"
    /\ sheet' = Remaining(df, failed_emails)
    /\ fileReadable' = TRUE
    /\ writes' = writes + 1
    /\ pc' = "done"
    /\ UNCHANGED <<df, emails, tokenFile, creds, idx, failed_emails,
                   attempts, refreshCalls, flowCalls, refreshFailed, sheet0,
                   tokenFile0, varsA>>

\* lines 132-133: to_excel raises; the warning is printed, the file is as before
UpdateFail ==
    /\ pc = "update"
    /\ pc' = "done"
    /\ UNCHANGED <<fileReadable, sheet, df, emails, tokenFile, creds, idx,
                   failed_emails, attempts, refreshCalls, flowCalls,
                   refreshFailed, writes, sheet0, tokenFile0, varsA>>

NextB ==
    \/ ReadOk
    \/ ReadFail
    \/ LoadToken
    \/ AuthSkip
    \/ RefreshOk
    \/ RefreshFail
    \/ FlowOk
    \/ FlowFail
    \/ BuildService
    \/ SendOk
    \/ SendFail
    \/ LoopExit
    \/ UpdateOk
    \/ UpdateFail

SpecB == InitB /\ [][NextB]_vars

----------------------------------------------------------------------------
(* Pipeline B: properties *)

\* The rows of the Email column, in order, whose send ended with outcome ok.
\* The k-th non-empty row is the k-th recipient, hence the k-th entry of log.
RECURSIVE RowsWhere(_, _, _)
RowsWhere(col, log, ok) ==
    IF col = <<>> \/ log = <<>> THEN <<>>
    ELSE IF Head(col).na THEN RowsWhere(Tail(col), log, ok)
    ELSE (IF Head(log).ok = ok THEN <<Head(col)>> ELSE <<>>)
            \o RowsWhere(Tail(col), Tail(log), ok)

\* The run went through the whole script and overwrote the spreadsheet, and
\* every recipient it sent to was a non-empty address.
Overwritten ==
    /\ pc = "done"
    /\ writes = 1
    /\ \A k \in DOMAIN emails : emails[k] # <<>>

AllSendsFailed == \A k \in DOMAIN attempts : ~attempts[k].ok

NoSurroundingWhitespace(t) ==
    t # <<>> => Head(t) \notin Whitespace /\ t[Len(t)] \notin Whitespace

\* C1: after a completed run the overwritten spreadsheet holds exactly the
\* rows whose send failed: a row whose send failed is kept, a row whose
\* send succeeded is gone.
C1_ExactlyFailedRemain ==
    Overwritten => sheet = RowsWhere(sheet0, attempts, FALSE)

\* C2: if every send of the run failed, the overwritten spreadsheet yields
\* the recipient list the run started from, in the same order and with its
\* duplicates.
C2_AllFailedKeepsList ==
    (Overwritten /\ AllSendsFailed) => LoadEmails(sheet) = emails

\* C3: the loaded recipient list has no entry for a blank or whitespace-only
\* cell (no empty recipient), and every entry is free of surrounding
\* whitespace.
C3_NoBlankRecipients ==
    \A k \in DOMAIN emails :
        emails[k] # <<>> /\ NoSurroundingWhitespace(emails[k])

\* C4: exactly one send is attempted per entry of the recipient list, in list
\* order; a send that raises is recorded in failed_emails and the entries
\* after it are still attempted.
C4_OneSendPerRecipientInOrder ==
    /\ Len(attempts) <= Len(emails)
    /\ \A k \in DOMAIN attempts : attempts[k].to = emails[k]
    /\ pc \in {"update", "done"} => Len(attempts) = Len(emails)
    /\ pc \in {"send", "update", "done"} =>
          /\ Len(failed_emails) =
                Cardinality({k \in DOMAIN attempts : ~attempts[k].ok})
          /\ \A k \in DOMAIN attempts :
                ~attempts[k].ok =>
                    failed_emails[Cardinality({j \in 1..k : ~attempts[j].ok})]
                        = attempts[k].to

C4_Witness ==
    /\ pc = "done"
    /\ Len(attempts) >= 2
    /\ ~attempts[1].ok
    /\ attempts[2].ok

\* C5 as stated: once the silent refresh has failed, the interactive
\* authorization is run as a fallback.
C5_RefreshFailureFallsBack == refreshFailed => flowCalls > 0

\* C5 as amended: a stored credential that is expired and has a refresh token
\* is refreshed silently, once and without an interactive authorization; a
\* refresh that fails ends the run: no interactive authorization is run,
\* token.pickle is not rewritten, nothing is sent and nothing is overwritten.
C5_RefreshFailureAborts ==
    /\ (CanRefresh(tokenFile0) /\ pc \in {"build", "send", "update", "done"})
          => /\ refreshCalls = 1
             /\ flowCalls = 0
             /\ Valid(creds)
             /\ tokenFile = creds
    /\ (CanRefresh(tokenFile0) /\ pc = "aborted" /\ fileReadable)
          => refreshFailed
    /\ refreshFailed
          => /\ pc = "aborted"
             /\ flowCalls = 0
             /\ tokenFile = tokenFile0
             /\ attempts = <<>>
             /\ writes = 0

C5_Witness ==
    /\ CanRefresh(tokenFile0)
    /\ refreshFailed
    /\ pc = "aborted"
    /\ emails # <<>>

\* C6: with a valid, non-expired token in token.pickle at start, no
\* interactive authorization and no refresh happens in the whole run, the
\* token file is left as it is, and the run reaches the sends unless the
\* spreadsheet could not be read.
InitiallyValid == tokenFile0.present /\ Valid(tokenFile0)

C6_ValidTokenNoAuthorization ==
    InitiallyValid =>
        /\ flowCalls = 0
        /\ refreshCalls = 0
        /\ tokenFile = tokenFile0
        /\ pc = "aborted" => ~fileReadable

C6_Witness ==
    /\ InitiallyValid
    /\ pc = "send"
    /\ attempts # <<>>

\* C10: the spreadsheet is overwritten at most once, and only after a send
\* was attempted for every loaded recipient; until then the file is as it was
\* at start, and a run that ends early has attempted no send and leaves the
\* file unchanged.
C10_EndOfRunOnlyPersistence ==
    /\ writes <= 1
    /\ writes = 1 =>
          /\ pc = "done"
          /\ Len(attempts) = Len(emails)
          /\ \A k \in DOMAIN emails : attempts[k].to = emails[k]
    /\ writes = 0 => sheet = sheet0
    /\ pc = "aborted" =>
          /\ attempts = <<>>
          /\ writes = 0
          /\ sheet = sheet0

C10_Witness ==
    /\ writes = 1
    /\ Len(attempts) >= 2
    /\ sheet # sheet0

----------------------------------------------------------------------------
(* Pipeline A: data.  A JSON object is a function from its keys; a missing  *)
(* key is a key outside its domain.                                         *)

FollowingPath == "followers_and_following/following.json"

FollowersPath == "followers_and_following/followers.json"

Item(u, url) == ("value" :> u) @@ ("href" :> url)

ItemAt(u, url, ts) == Item(u, url) @@ ("timestamp" :> ts)

Record(item) == [string_list_data |-> <<item>>]

\* Relationship records of the following export: an account followed twice
\* over (two records of one username), records with and without a timestamp.
FollowingRecords ==
    { Record(ItemAt("a", "u/a", "100")), Record(Item("a", "u/a2")),
      Record(ItemAt("b", "u/b", "200")), Record(Item("c", "u/c")) }

FollowerRecords ==
    { Record(ItemAt(u, "u/x", "300")) : u \in {"a", "b", "c"} }

\* following.json decodes to an object that has the key
\* relationships_following, or lacks it
FollowingDocs ==
    { <<>> } \cup
    { ("relationships_following" :> l) :
          l \in SeqsUpTo(FollowingRecords, MaxFollowing) }

NoError == [type |-> "none", path |-> ""]

NoFile == [state |-> "absent", columns |-> <<>>, rows |-> <<>>]

OldFile == [state |-> "old", columns |-> <<>>, rows |-> <<>>]

\* A loader that answers an empty document for a missing file.
LoadJsonFileLenient(exists, content, filename) ==
    [raised |-> FALSE, error |-> NoError,
     value |-> IF exists THEN content ELSE <<>>]

\* load_json_file(filename)
LoadJsonFile(exists, content, filename) ==
    IF ~exists
    THEN [raised |-> TRUE,
          error |-> [type |-> "FileNotFoundError", path |-> filename],
          value |-> <<>>]
    ELSE [raised |-> FALSE, error |-> NoError, value |-> content]

\* dict.get(key, default)
Get(d, key, default) == IF key \in DOMAIN d THEN d[key] ELSE default

\* lines 74-81: (username, followed at, profile link) of every record
ExtractFollowing(data) ==
    LET recs == Get(data, "relationships_following", <<>>)
    IN  [k \in DOMAIN recs |->
            << recs[k].string_list_data[1]["value"],
               Get(recs[k].string_list_data[1], "timestamp", "N/A"),
               recs[k].string_list_data[1]["href"] >>]

\* lines 85-88
ExtractFollowers(data) ==
    [k \in DOMAIN data |-> data[k].string_list_data[1]["value"]]

\* x in list
InList(x, l) == \E k \in DOMAIN l : l[k] = x

\* f'=HYPERLINK("{url}", "{username}")'
Hyperlink(url, username) ==
    <<"=HYPERLINK(\"", url, "\", \"", username, "\")">>

GapRow(t) ==
    ("Username" :> t[1]) @@ ("Followed At" :> t[2])
        @@ ("Profile URL" :> Hyperlink(t[3], t[1]))

\* The comprehension with its condition inverted.
NotFollowingBackInverted(fing, fers) ==
    LET kept == SelectSeq(fing, LAMBDA t : InList(t[1], fers))
    IN  [k \in DOMAIN kept |-> GapRow(kept[k])]

\* lines 92-100
NotFollowingBack(fing, fers) ==
    LET kept == SelectSeq(fing, LAMBDA t : ~InList(t[1], fers))
    IN  [k \in DOMAIN kept |-> GapRow(kept[k])]

\* The key order of the row dictionaries of lines 93-97
RowKeys == <<"Username", "Followed At", "Profile URL">>

\* pd.DataFrame(list of dicts): the columns are the keys found in the rows
DataFrame(rows) ==
    [columns |-> SelectSeq(RowKeys,
                    LAMBDA key : \E k \in DOMAIN rows : key \in DOMAIN rows[k]),
     rows |-> rows]

\* df.to_excel(output_file, index=False): header row and data rows
ToExcel(frame) ==
    [state |-> "written", columns |-> frame.columns, rows |-> frame.rows]

----------------------------------------------------------------------------
(* Pipeline A: the script *)

IdleB ==
    /\ pc = "idle"
    /\ fileReadable = FALSE
    /\ sheet = <<>> /\ sheet0 = <<>>
    /\ df = <<>> /\ emails = <<>>
    /\ tokenFile = NoCreds /\ tokenFile0 = NoCreds /\ creds = NoCreds
    /\ idx = 1
    /\ failed_emails = <<>> /\ attempts = <<>>
    /\ refreshCalls = 0 /\ flowCalls = 0 /\ refreshFailed = FALSE
    /\ writes = 0

InitA ==
    /\ pcA = "load_following"
    /\ followingExists \in BOOLEAN
    /\ followersExists \in BOOLEAN
    /\ followingJson \in FollowingDocs
    /\ followersJson \in SeqsUpTo(FollowerRecords, MaxFollowers)
    /\ ~followingExists => followingJson = <<>>
    /\ ~followersExists => followersJson = <<>>
    /\ following_data = <<>>
    /\ followers_data = <<>>
    /\ following = <<>>
    /\ followers = <<>>
    /\ not_following_back = <<>>
    /\ output \in {NoFile, OldFile}
    /\ output0 = output
    /\ errorA = NoError
    /\ IdleB

\* line 69, the file is there
LoadFollowing ==
    /\ pcA = "load_following"
    /\ LET r == LoadJsonFile(followingExists, followingJson, FollowingPath)
       IN  /\ ~r.raised
           /\ following_data' = r.value
    /\ pcA' = "load_followers"
    /\ UNCHANGED <<followingExists, followersExists, followingJson,
                   followersJson, followers_data, following, followers,
                   not_following_back, output, output0, errorA, varsB>>

\* line 69, load_json_file raises; the exception ends the script
LoadFollowingRaises ==
    /\ pcA = "load_following"
    /\ LET r == LoadJsonFile(followingExists, followingJson, FollowingPath)
       IN  /\ r.raised
           /\ errorA' = r.error
    /\ pcA' = "failed"
    /\ UNCHANGED <<followingExists, followersExists, followingJson,
                   followersJson, following_data, followers_data, following,
                   followers, not_following_back, output, output0, varsB>>

\* line 70, the file is there
LoadFollowers ==
    /\ pcA = "load_followers"
    /\ LET r == LoadJsonFile(followersExists, followersJson, FollowersPath)
       IN  /\ ~r.raised
           /\ followers_data' = r.value
    /\ pcA' = "extract"
    /\ UNCHANGED <<followingExists, followersExists, followingJson,
                   followersJson, following_data, following, followers,
                   not_following_back, output, output0, errorA, varsB>>

\* line 70, load_json_file raises; the exception ends the script
LoadFollowersRaises ==
    /\ pcA = "load_followers"
    /\ LET r == LoadJsonFile(followersExists, followersJson, FollowersPath)
       IN  /\ r.raised
           /\ errorA' = r.error
    /\ pcA' = "failed"
    /\ UNCHANGED <<followingExists, followersExists, followingJson,
                   followersJson, following_data, followers_data, following,
                   followers, not_following_back, output, output0, varsB>>

\* lines 74-88: both lists are extracted
Extract ==
    /\ pcA = "extract"
    /\ following' = ExtractFollowing(following_data)
    /\ followers' = ExtractFollowers(followers_data)
    /\ pcA' = "compare"
    /\ UNCHANGED <<followingExists, followersExists, followingJson,
                   followersJson, following_data, followers_data,
                   not_following_back, output, output0, errorA, varsB>>

\* lines 92-100
Compare ==
    /\ pcA = "compare"
    /\ not_following_back' = NotFollowingBack(following, followers)
    /\ pcA' = "export"
    /\ UNCHANGED <<followingExists, followersExists, followingJson,
                   followersJson, following_data, followers_data, following,
                   followers, output, output0, errorA, varsB>>

\* lines 104-108: the frame is built and written over the output file
Export ==
    /\ pcA = "export"
    /\ output' = ToExcel(DataFrame(not_following_back))
    /\ pcA' = "done"
    /\ UNCHANGED <<followingExists, followersExists, followingJson,
                   followersJson, following_data, followers_data, following,
                   followers, not_following_back, output0, errorA, varsB>>

NextA ==
    \/ LoadFollowing
    \/ LoadFollowingRaises
    \/ LoadFollowers
    \/ LoadFollowersRaises
    \/ Extract
    \/ Compare
    \/ Export

SpecA == InitA /\ [][NextA]_vars

----------------------------------------------------------------------------
(* Pipeline A: properties *)

\* The relationship records and the follower usernames as the input files
\* hold them.
InputRecords == Get(followingJson, "relationships_following", <<>>)

InputFollowers ==
    { followersJson[k].string_list_data[1]["value"] : k \in DOMAIN followersJson }

UsernameOf(rec) == rec.string_list_data[1]["value"]

\* Positions of the following export whose username follows nobody back
GapPositions == { i \in DOMAIN InputRecords :
                    UsernameOf(InputRecords[i]) \notin InputFollowers }

RankIn(i, P) == Cardinality({ j \in P : j <= i })

\* C7: the rows are the following entries whose username is not among the
\* followers, one row per such entry (duplicates included), in the order of
\* the following export; no row carries a follower's username.
C7_GapIsOrderedFilter ==
    pcA \in {"export", "done"} =>
        /\ Len(not_following_back) = Cardinality(GapPositions)
        /\ \A i \in GapPositions :
              LET row  == not_following_back[RankIn(i, GapPositions)]
                  item == InputRecords[i].string_list_data[1]
              IN  /\ row["Username"] = item["value"]
                  /\ row["Followed At"] =
                        (IF "timestamp" \in DOMAIN item
                         THEN item["timestamp"] ELSE "N/A")
                  /\ row["Profile URL"][2] = item["href"]
                  /\ row["Profile URL"][4] = item["value"]
        /\ \A k \in DOMAIN not_following_back :
              not_following_back[k]["Username"] \notin InputFollowers

C7_Witness ==
    /\ pcA = "done"
    /\ Len(InputRecords) = 3
    /\ Len(not_following_back) = 2
    /\ not_following_back[1]["Username"] = not_following_back[2]["Username"]
    /\ not_following_back[1]["Followed At"] = "N/A"
    /\ UsernameOf(InputRecords[2]) \in InputFollowers

\* C8: with no gap row the written report has no data row and still has the
\* columns Username, Followed At, Profile URL in that order.
C8_EmptyReportHasHeader ==
    (pcA = "done" /\ not_following_back = <<>>) =>
        /\ output.state = "written"
        /\ output.rows = <<>>
        /\ output.columns = <<"Username", "Followed At", "Profile URL">>

\* C9: if one of the two input files is missing, the run ends with a
\* FileNotFoundError that carries the missing path and the output file is
\* never written: it stays as it was.
MissingPath == IF ~followingExists THEN FollowingPath ELSE FollowersPath

C9_MissingInputNoOutput ==
    (~followingExists \/ ~followersExists) =>
        /\ output = output0
        /\ pcA \in {"load_following", "load_followers", "failed"}
        /\ pcA = "load_followers" => ~followersExists
        /\ pcA = "failed" =>
              /\ errorA.type = "FileNotFoundError"
              /\ errorA.path = MissingPath

C9_Witness ==
    /\ pcA = "failed"
    /\ followingExists
    /\ ~followersExists
    /\ followingJson # <<>>
    /\ output = OldFile

====
